---- MODULE Spec2Model ----
(***************************************************************************)
(* Patient Management System API (patient.py): the patients.json           *)
(* collection and the HTTP handlers that read and rewrite it.              *)
(*                                                                         *)
(* Units.  height is held in centimetres (1.75 m is 175), weight in whole  *)
(* kilograms and bmi in hundredths (22.86 is 2286), so that                *)
(* round(weight / height**2, 2) is integer arithmetic:                     *)
(*   bmi (hundredths) = round(weight * 10^6 / height_cm^2).                *)
(*                                                                         *)
(* A JSON request body is [set, null, v]: set is the keys given with a     *)
(* value, null the keys given as JSON null, v the values of the keys in    *)
(* set (the other entries of v are the fixed filler of Blank).             *)
(***************************************************************************)
EXTENDS Integers, Sequences, FiniteSets, TLC

VARIABLES file, req, resp, nMut, created, deleted, pc, treq, snap, local, tresp, stale, saves

\* file:    the JSON object in patients.json
\* req:     the last request served, resp: its status and body
\* nMut:    the number of requests that have saved
\* created: the payloads of the successful creates whose id has not been
\*          updated or deleted since
\* deleted: the ids deleted and not created again since
\* pc, treq, snap, local, tresp: per worker thread, its position, request,
\*          the collection it loaded, its in-memory collection and its response
\* stale:   the threads that had loaded when another thread saved
\* saves:   the threads in the order they saved

vars == <<file, req, resp, nMut, created, deleted, pc, treq, snap, local, tresp, stale, saves>>

seqVars == <<req, resp, nMut, created, deleted>>

concVars == <<pc, treq, snap, local, tresp, stale, saves>>

(* ---------------------------- bounds ----------------------------------- *)

MaxMutations == 3

MaxSortLen == 3

(* ---------------------------- value sets ------------------------------- *)

Ids == {"P1", "P2"}

Threads == {"t1", "t2"}

DataFields == {"name", "city", "age", "gender", "height", "weight"}

PatientFields == {"id"} \cup DataFields

Blank == [id |-> "", name |-> "", city |-> "", age |-> 0, gender |-> "", height |-> 0, weight |-> 0]

NoBody == [set |-> {}, null |-> {}, v |-> Blank]

NoReq == [op |-> "none", id |-> "", body |-> NoBody, sort_by |-> "", order |-> ""]

NoResp == [status |-> 0, body |-> "none"]

(* ---------------------------- Patient ---------------------------------- *)

\* round(weight / (height ** 2), 2), to the nearest hundredth, ties to even
bmi(height, weight) ==
  LET num == weight * 1000000
      den == height * height
      q == num \div den
      r == num % den
  IN  IF 2 * r < den THEN q
      ELSE IF 2 * r > den THEN q + 1
      ELSE IF q % 2 = 0 THEN q ELSE q + 1

verdict(b) ==
  IF b < 1850 THEN "Underweight"
  ELSE IF b < 3000 THEN "Normal"
  ELSE "Obese"

\* Patient(**fields): every field required and not null, the Field constraints
Patient(body) ==
  /\ body.null = {}
  /\ PatientFields \subseteq body.set
  /\ body.v.age > 0
  /\ body.v.gender \in {"male", "female", "others"}
  /\ body.v.height > 0
  /\ body.v.weight > 0

\* PatientUpdate: every field optional (null allowed), constraints on given values
PatientUpdate(body) ==
  /\ body.set \cup body.null \subseteq DataFields
  /\ "age" \in body.set => body.v.age > 0
  /\ "gender" \in body.set => body.v.gender \in {"male", "female"}
  /\ "height" \in body.set => body.v.height > 0
  /\ "weight" \in body.set => body.v.weight > 0

\* mutant of model_dump: the id is not excluded
model_dump_with_id(p) ==
  [id |-> p.id, name |-> p.name, city |-> p.city, age |-> p.age, gender |-> p.gender,
   height |-> p.height, weight |-> p.weight,
   bmi |-> bmi(p.height, p.weight),
   verdict |-> verdict(bmi(p.height, p.weight))]

\* patient.model_dump(exclude=["id"]): the fields without id, with the computed fields
model_dump(p) ==
  [name |-> p.name, city |-> p.city, age |-> p.age, gender |-> p.gender,
   height |-> p.height, weight |-> p.weight,
   bmi |-> bmi(p.height, p.weight),
   verdict |-> verdict(bmi(p.height, p.weight))]

(* ---------------------------- the collection --------------------------- *)
\* A collection is the JSON object of patients.json: a sequence of
\* [id, val] entries in key (insertion) order, with no id twice.

Keys(data) == {data[i].id : i \in DOMAIN data}

Values(data) == [i \in DOMAIN data |-> data[i].val]

Index(data, id) == CHOOSE i \in DOMAIN data : data[i].id = id

Get(data, id) == data[Index(data, id)].val

\* mutant of Put: an existing key is written to the first slot
Put_first(data, id, val) ==
  IF id \in Keys(data)
  THEN [data EXCEPT ![1] = [id |-> id, val |-> val]]
  ELSE Append(data, [id |-> id, val |-> val])

\* data[id] = val: a new key goes last, an existing key keeps its place
Put(data, id, val) ==
  IF id \in Keys(data)
  THEN [data EXCEPT ![Index(data, id)] = [id |-> id, val |-> val]]
  ELSE Append(data, [id |-> id, val |-> val])

\* mutant of Del: the first entry is removed, whatever the key
Del_first(data, id) == SubSeq(data, 2, Len(data))

\* del data[id]
Del(data, id) ==
  LET k == Index(data, id)
  IN  [i \in 1..(Len(data) - 1) |-> IF i < k THEN data[i] ELSE data[i + 1]]

\* mutant of save_data: the keys of the file that data lacks are kept
save_data_merge(data) ==
  data \o SelectSeq(file, LAMBDA e : e.id \notin Keys(data))

load_data == file

save_data(data) == data

(* ---------------------------- handlers --------------------------------- *)
\* A handler maps the loaded collection and the request to
\* [status, body, data, saved]: data is the handler's in-memory collection
\* when it returns or raises, saved tells whether save_data(data) ran.

Result(status, body, data, saved) ==
  [status |-> status, body |-> body, data |-> data, saved |-> saved]

\* x.get(sort_by, 0)
GetField(x, f) == IF f \in DOMAIN x THEN x[f] ELSE 0

Reverse(s) == [i \in 1..Len(s) |-> s[Len(s) + 1 - i]]

\* x goes after every element whose key is <= its own
InsertStable(s, x, f) ==
  LET k == Cardinality({i \in 1..Len(s) : GetField(s[i], f) <= GetField(x, f)})
  IN  SubSeq(s, 1, k) \o <<x>> \o SubSeq(s, k + 1, Len(s))

RECURSIVE SortAsc(_, _)
SortAsc(xs, f) ==
  IF Len(xs) = 0 THEN <<>>
  ELSE InsertStable(SortAsc(SubSeq(xs, 1, Len(xs) - 1), f), xs[Len(xs)], f)

\* mutant of sorted: reverse as a reversal of the ascending result
sorted_reversed_after(xs, f, reverse) ==
  IF reverse THEN Reverse(SortAsc(xs, f)) ELSE SortAsc(xs, f)

\* sorted(xs, key=lambda x: x.get(f, 0), reverse=reverse): a stable sort; with
\* reverse the list is reversed, sorted and reversed again
sorted(xs, f, reverse) ==
  IF reverse THEN Reverse(SortAsc(Reverse(xs), f)) ELSE SortAsc(xs, f)

view(data) == Result(200, data, data, FALSE)

view_patient(data, patient_id) ==
  IF patient_id \in Keys(data)
  THEN Result(200, Get(data, patient_id), data, FALSE)
  ELSE Result(404, "patient not found", data, FALSE)

sort_patient(data, sort_by, order) ==
  IF sort_by \notin {"height", "weight", "bmi"}
  THEN Result(400, "invalid field", data, FALSE)
  ELSE IF order \notin {"asc", "desc"}
  THEN Result(400, "invalid order", data, FALSE)
  ELSE Result(200, sorted(Values(data), sort_by, order = "desc"), data, FALSE)

\* mutant of create_patient: no duplicate check
create_patient_overwrite(data, patient) ==
  Result(201, "patient created successfully",
         Put(data, patient.id, model_dump(patient)), TRUE)

\* patient is the validated Patient object (the field values)
create_patient(data, patient) ==
  IF patient.id \in Keys(data)
  THEN Result(400, "patient already exists", data, FALSE)
  ELSE Result(201, "patient created successfully",
              Put(data, patient.id, model_dump(patient)), TRUE)

\* mutant of Overlay: a given name is also written to city
Overlay_mixup(existing, patient_id, patch) ==
  [set |-> PatientFields \ patch.null,
   null |-> patch.null,
   v |-> [f \in PatientFields |->
            IF f = "id" THEN patient_id
            ELSE IF f = "city" /\ "name" \in patch.set THEN patch.v.name
            ELSE IF f \in patch.set THEN patch.v[f]
            ELSE existing[f]]]

\* existing_patient_info[key] = value for every key of
\* patient_update.model_dump(exclude_unset=True), then ['id'] = patient_id:
\* the keyword arguments of Patient(**existing_patient_info) as a body
Overlay(existing, patient_id, patch) ==
  [set |-> PatientFields \ patch.null,
   null |-> patch.null,
   v |-> [f \in PatientFields |->
            IF f = "id" THEN patient_id
            ELSE IF f \in patch.set THEN patch.v[f]
            ELSE existing[f]]]

\* data[patient_id] after the in-place overlay, when Patient(...) raises
Dirty(existing, merged) ==
  [f \in DOMAIN existing \cup {"id"} |->
     IF f \in merged.null THEN "None"
     ELSE IF f \in PatientFields THEN merged.v[f]
     ELSE existing[f]]

\* mutant of update_patient: bmi and verdict are copied from the stored record
update_patient_copies(data, patient_id, patient_update) ==
  IF patient_id \notin Keys(data)
  THEN Result(404, "patient not found", data, FALSE)
  ELSE LET existing == Get(data, patient_id)
           merged == Overlay(existing, patient_id, patient_update)
       IN  IF ~Patient(merged)
           THEN Result(500, "Internal Server Error",
                       Put(data, patient_id, Dirty(existing, merged)), FALSE)
           ELSE Result(200, "patient updated successfully",
                       Put(data, patient_id,
                           [model_dump(merged.v) EXCEPT !.bmi = existing.bmi,
                                                        !.verdict = existing.verdict]),
                       TRUE)

\* mutant of update_patient: no existence check, an absent id is answered 200
update_patient_nocheck(data, patient_id, patient_update) ==
  IF patient_id \notin Keys(data)
  THEN Result(200, "patient updated successfully", data, TRUE)
  ELSE LET existing == Get(data, patient_id)
           merged == Overlay(existing, patient_id, patient_update)
       IN  IF ~Patient(merged)
           THEN Result(500, "Internal Server Error",
                       Put(data, patient_id, Dirty(existing, merged)), FALSE)
           ELSE Result(200, "patient updated successfully",
                       Put(data, patient_id, model_dump(merged.v)), TRUE)

update_patient(data, patient_id, patient_update) ==
  IF patient_id \notin Keys(data)
  THEN Result(404, "patient not found", data, FALSE)
  ELSE LET existing == Get(data, patient_id)
           merged == Overlay(existing, patient_id, patient_update)
       IN  IF ~Patient(merged)
           THEN Result(500, "Internal Server Error",
                       Put(data, patient_id, Dirty(existing, merged)), FALSE)
           ELSE Result(200, "patient updated successfully",
                       Put(data, patient_id, model_dump(merged.v)), TRUE)

delete_patient(data, patient_id) ==
  IF patient_id \notin Keys(data)
  THEN Result(404, "patient not found", data, FALSE)
  ELSE Result(200, "patient deleted successfully", Del(data, patient_id), TRUE)

\* FastAPI validates the request body against the handler's parameter model
\* before the handler runs; a body that does not validate is answered 422
Unprocessable(data) == Result(422, "validation error", data, FALSE)

(* ---------------------------- request inputs --------------------------- *)

Mk(id, name, city, age, gender, height, weight) ==
  [id |-> id, name |-> name, city |-> city, age |-> age, gender |-> gender,
   height |-> height, weight |-> weight]

Full(p) == [set |-> PatientFields, null |-> {}, v |-> p]

ValidPatients(id) ==
  { Mk(id, "A", "X", 30, "male", 175, 70),
    Mk(id, "B", "Y", 31, "others", 200, 74),
    Mk(id, "B", "X", 30, "female", 200, 70),
    Mk(id, "A", "Y", 31, "male", 200, 120) }

CreateBodies(id) ==
  {Full(p) : p \in ValidPatients(id)} \cup
  { Full(Mk(id, "A", "X", 0, "male", 175, 70)),
    Full(Mk(id, "A", "X", 30, "xyz", 175, 70)),
    [set |-> PatientFields \ {"city"}, null |-> {}, v |-> Mk(id, "A", "", 30, "male", 175, 70)],
    [set |-> PatientFields \ {"name"}, null |-> {"name"}, v |-> Mk(id, "", "X", 30, "male", 175, 70)] }

Set1(f, x) == [set |-> {f}, null |-> {}, v |-> [Blank EXCEPT ![f] = x]]

Null1(f) == [set |-> {}, null |-> {f}, v |-> Blank]

Patches ==
  { NoBody,
    Set1("name", "B"),
    Set1("city", "Y"),
    Set1("age", 31), Set1("age", 0),
    Set1("gender", "female"), Set1("gender", "others"), Set1("gender", "xyz"),
    Set1("height", 200), Set1("height", 0),
    Set1("weight", 120), Set1("weight", 74),
    Null1("age"),
    [set |-> {"height", "weight"}, null |-> {}, v |-> [Blank EXCEPT !.height = 175, !.weight = 70]],
    [set |-> {"city"}, null |-> {"weight"}, v |-> [Blank EXCEPT !.city = "Y"]] }

(* ---------------------------- requests, one at a time ------------------ *)

Request(op, id, body, sort_by, order) ==
  [op |-> op, id |-> id, body |-> body, sort_by |-> sort_by, order |-> order]

\* the whole request: load_data, the handler, save_data when it got that far
Serve(r, res) ==
  /\ req' = r
  /\ resp' = [status |-> res.status, body |-> res.body]
  /\ file' = IF res.saved THEN save_data(res.data) ELSE file
  /\ UNCHANGED concVars

GetView ==
  /\ Serve(Request("view", "", NoBody, "", ""), view(load_data))
  /\ UNCHANGED <<nMut, created, deleted>>

GetPatient(patient_id) ==
  /\ Serve(Request("view_one", patient_id, NoBody, "", ""), view_patient(load_data, patient_id))
  /\ UNCHANGED <<nMut, created, deleted>>

GetSort(sort_by, order) ==
  /\ Serve(Request("sort", "", NoBody, sort_by, order), sort_patient(load_data, sort_by, order))
  /\ UNCHANGED <<nMut, created, deleted>>

PostCreate(id, body) ==
  /\ LET res == IF Patient(body) THEN create_patient(load_data, body.v)
                ELSE Unprocessable(file)
     IN  /\ res.saved => nMut < MaxMutations
         /\ Serve(Request("create", id, body, "", ""), res)
         /\ nMut' = IF res.saved THEN nMut + 1 ELSE nMut
         /\ created' = IF res.saved THEN created \cup {body.v} ELSE created
         /\ deleted' = IF res.saved THEN deleted \ {id} ELSE deleted

PutEdit(patient_id, body) ==
  /\ LET res == IF PatientUpdate(body) THEN update_patient(load_data, patient_id, body)
                ELSE Unprocessable(file)
     IN  /\ res.saved => nMut < MaxMutations
         /\ Serve(Request("update", patient_id, body, "", ""), res)
         /\ nMut' = IF res.saved THEN nMut + 1 ELSE nMut
         /\ created' = IF res.saved THEN {p \in created : p.id # patient_id} ELSE created
         /\ UNCHANGED deleted

DeleteDelete(patient_id) ==
  /\ LET res == delete_patient(load_data, patient_id)
     IN  /\ res.saved => nMut < MaxMutations
         /\ Serve(Request("delete", patient_id, NoBody, "", ""), res)
         /\ nMut' = IF res.saved THEN nMut + 1 ELSE nMut
         /\ created' = IF res.saved THEN {p \in created : p.id # patient_id} ELSE created
         /\ deleted' = IF res.saved THEN deleted \cup {patient_id} ELSE deleted

Init ==
  /\ file = <<>>
  /\ req = NoReq
  /\ resp = NoResp
  /\ nMut = 0
  /\ created = {}
  /\ deleted = {}
  /\ pc = [t \in Threads |-> "idle"]
  /\ treq = [t \in Threads |-> NoReq]
  /\ snap = [t \in Threads |-> <<>>]
  /\ local = [t \in Threads |-> <<>>]
  /\ tresp = [t \in Threads |-> NoResp]
  /\ stale = [t \in Threads |-> FALSE]
  /\ saves = <<>>

Next ==
  \/ GetView
  \/ \E id \in Ids : GetPatient(id)
  \/ \E sort_by \in {"bmi", "age"}, order \in {"asc", "desc"} : GetSort(sort_by, order)
  \/ \E id \in Ids : \E body \in CreateBodies(id) : PostCreate(id, body)
  \/ \E id \in Ids : \E body \in Patches : PutEdit(id, body)
  \/ \E id \in Ids : DeleteDelete(id)

Spec == Init /\ [][Next]_vars

(* ---------------------------- sort over any collection ----------------- *)
\* patients.json as found on disk: records written by this API and records
\* written by hand that lack the computed fields

Legacy(p) ==
  [name |-> p.name, city |-> p.city, age |-> p.age, gender |-> p.gender,
   height |-> p.height, weight |-> p.weight]

SortEntries ==
  { [id |-> "P1", val |-> model_dump(Mk("P1", "A", "X", 30, "male", 175, 70))],
    [id |-> "P2", val |-> model_dump(Mk("P2", "B", "Y", 31, "others", 175, 70))],
    [id |-> "P3", val |-> model_dump(Mk("P3", "B", "X", 30, "female", 200, 70))],
    [id |-> "P4", val |-> Legacy(Mk("P4", "A", "Y", 31, "male", 200, 120))],
    [id |-> "P5", val |-> Legacy(Mk("P5", "B", "Y", 30, "female", 175, 74))] }

SortFiles ==
  {s \in UNION {[1..n -> SortEntries] : n \in 0..MaxSortLen} :
     \A i, j \in DOMAIN s : i # j => s[i].id # s[j].id}

InitSort ==
  /\ file \in SortFiles
  /\ req = NoReq
  /\ resp = NoResp
  /\ nMut = 0
  /\ created = {}
  /\ deleted = {}
  /\ pc = [t \in Threads |-> "idle"]
  /\ treq = [t \in Threads |-> NoReq]
  /\ snap = [t \in Threads |-> <<>>]
  /\ local = [t \in Threads |-> <<>>]
  /\ tresp = [t \in Threads |-> NoResp]
  /\ stale = [t \in Threads |-> FALSE]
  /\ saves = <<>>

NextSort ==
  \E sort_by \in {"height", "weight", "bmi", "age"}, order \in {"asc", "desc", "up"} :
    GetSort(sort_by, order)

SpecSort == InitSort /\ [][NextSort]_vars

(* ---------------------------- concurrent requests ---------------------- *)
\* Each handler is a plain def, so FastAPI runs it in a worker thread: two
\* requests interleave between one's load_data and its save_data.

ConcFiles ==
  { <<>>,
    <<[id |-> "P1", val |-> model_dump(Mk("P1", "A", "X", 30, "male", 175, 70))]>>,
    <<[id |-> "P1", val |-> model_dump(Mk("P1", "A", "X", 30, "male", 175, 70))],
      [id |-> "P2", val |-> model_dump(Mk("P2", "B", "Y", 31, "others", 200, 74))]>> }

ConcRequests ==
  {Request("create", id, Full(Mk(id, "B", "X", 30, "female", 200, 70)), "", "") : id \in Ids} \cup
  {Request("create", id, Full(Mk(id, "A", "X", 0, "male", 175, 70)), "", "") : id \in Ids} \cup
  {Request("update", id, b, "", "") :
     id \in Ids, b \in {Set1("name", "B"), Set1("weight", 120), Set1("gender", "others"), Null1("age")}} \cup
  {Request("delete", id, NoBody, "", "") : id \in Ids}

BodyValid(r) ==
  CASE r.op = "create" -> Patient(r.body)
    [] r.op = "update" -> PatientUpdate(r.body)
    [] OTHER -> TRUE

Handle(data, r) ==
  CASE r.op = "create" -> create_patient(data, r.body.v)
    [] r.op = "update" -> update_patient(data, r.id, r.body)
    [] r.op = "delete" -> delete_patient(data, r.id)

\* the request arrives: body validation, then the handler's data = load_data()
Start(t, r) ==
  /\ pc[t] = "idle"
  /\ treq' = [treq EXCEPT ![t] = r]
  /\ IF BodyValid(r)
     THEN /\ local' = [local EXCEPT ![t] = load_data]
          /\ snap' = [snap EXCEPT ![t] = load_data]
          /\ pc' = [pc EXCEPT ![t] = "loaded"]
          /\ UNCHANGED tresp
     ELSE /\ tresp' = [tresp EXCEPT ![t] = [status |-> 422, body |-> "validation error"]]
          /\ pc' = [pc EXCEPT ![t] = "done"]
          /\ UNCHANGED <<local, snap>>
  /\ UNCHANGED <<file, stale, saves>>
  /\ UNCHANGED seqVars

\* the rest of the handler on its in-memory collection, with save_data(data)
Finish(t) ==
  /\ pc[t] = "loaded"
  /\ LET res == Handle(local[t], treq[t])
     IN  /\ local' = [local EXCEPT ![t] = res.data]
         /\ tresp' = [tresp EXCEPT ![t] = [status |-> res.status, body |-> res.body]]
         /\ file' = IF res.saved THEN save_data(res.data) ELSE file
         /\ saves' = IF res.saved THEN Append(saves, t) ELSE saves
         /\ stale' = [u \in Threads |->
                        IF res.saved /\ u # t /\ pc[u] = "loaded" THEN TRUE ELSE stale[u]]
  /\ pc' = [pc EXCEPT ![t] = "done"]
  /\ UNCHANGED <<treq, snap>>
  /\ UNCHANGED seqVars

InitConc ==
  /\ file \in ConcFiles
  /\ req = NoReq
  /\ resp = NoResp
  /\ nMut = 0
  /\ created = {}
  /\ deleted = {}
  /\ pc = [t \in Threads |-> "idle"]
  /\ treq = [t \in Threads |-> NoReq]
  /\ snap = [t \in Threads |-> <<>>]
  /\ local = [t \in Threads |-> <<>>]
  /\ tresp = [t \in Threads |-> NoResp]
  /\ stale = [t \in Threads |-> FALSE]
  /\ saves = <<>>

NextConc ==
  \/ \E t \in Threads : \E r \in ConcRequests : Start(t, r)
  \/ \E t \in Threads : Finish(t)

SpecConc == InitConc /\ [][NextConc]_vars

(* ======================================================================= *)
(*                               Properties                                *)
(* ======================================================================= *)

\* b (hundredths) is weight / height^2 rounded to two decimals
IsRoundedBmi(b, height, weight) ==
  LET d == b * height * height - weight * 1000000
  IN  2 * d <= height * height /\ -2 * d <= height * height

IsVerdictOf(v, b) ==
  /\ b < 1850 => v = "Underweight"
  /\ (1850 <= b /\ b < 3000) => v = "Normal"
  /\ b >= 3000 => v = "Obese"

Succeeded == resp.status \in {200, 201}

\* C1: every stored record has bmi = round(weight / height^2, 2) and the
\* verdict of that bmi, computed from its current stored height and weight,
\* after any sequence of create, update and delete requests.
C1_DerivedFieldsConsistent ==
  \A i \in DOMAIN file :
    LET x == file[i].val
    IN  /\ IsRoundedBmi(x.bmi, x.height, x.weight)
        /\ IsVerdictOf(x.verdict, x.bmi)

\* a record created Normal at 1.75 m / 70 kg, now stored Obese after a
\* successful weight-only update
C1_Witness ==
  /\ req.op = "update" /\ resp.status = 200
  /\ req.body.set = {"weight"} /\ req.body.v.weight = 120
  /\ LET x == Get(file, req.id)
     IN  x.height = 175 /\ x.bmi = 3918 /\ x.verdict = "Obese"

\* C2 (as stated): a create whose id is already a key always fails with 400,
\* whatever the rest of the payload, and leaves the collection unchanged.
C2_Original ==
  [][(req'.op = "create" /\ req'.id \in Keys(file))
       => (resp'.status = 400 /\ file' = file)]_vars

\* C2 (amended): a create whose id is already a key leaves the collection
\* unchanged and fails: with 400 when the payload validates as a Patient,
\* with 422 when it does not (the body is validated before the handler runs).
C2_ConflictOrUnprocessable ==
  [][(req'.op = "create" /\ req'.id \in Keys(file))
       => /\ file' = file
          /\ resp'.status = IF Patient(req'.body) THEN 400 ELSE 422]_vars

\* a valid payload that differs from the stored record was refused with 400
C2_Witness ==
  /\ req.op = "create" /\ resp.status = 400
  /\ req.id \in Keys(file)
  /\ Get(file, req.id) # model_dump(req.body.v)

\* C3: a successful update leaves every non-id field that is absent from the
\* patch as it was, and leaves bmi and verdict as they were when the patch has
\* neither height nor weight (or leaves both of them at their stored values).
C3_UpdateFrame ==
  [][(req'.op = "update" /\ resp'.status = 200)
       => LET old == Get(file, req'.id)
              new == Get(file', req'.id)
              given == req'.body.set \cup req'.body.null
          IN  /\ \A f \in DataFields \ given : new[f] = old[f]
              /\ (given \cap {"height", "weight"} = {}
                    \/ (new.height = old.height /\ new.weight = old.weight))
                   => (new.bmi = old.bmi /\ new.verdict = old.verdict)]_vars

\* a successful city-only update of the record created as A / X / male / 1.75
C3_Witness ==
  /\ req.op = "update" /\ resp.status = 200
  /\ req.body.set = {"city"} /\ req.body.null = {}
  /\ LET x == Get(file, req.id)
     IN  /\ x.city = "Y" /\ x.name = "A" /\ x.age = 30 /\ x.gender = "male"
         /\ x.height = 175 /\ x.weight = 70 /\ x.bmi = 2286

\* C4 (as stated): an update whose id is not a key always fails with 404, for
\* every patch payload, and leaves the collection unchanged.
C4_Original ==
  [][(req'.op = "update" /\ req'.id \notin Keys(file))
       => (resp'.status = 404 /\ file' = file)]_vars

\* C4 (amended): an update whose id is not a key leaves the collection
\* unchanged and fails: with 404 when the patch validates as a PatientUpdate,
\* with 422 when it does not (the body is validated before the handler runs).
C4_NotFoundOrUnprocessable ==
  [][(req'.op = "update" /\ req'.id \notin Keys(file))
       => /\ file' = file
          /\ resp'.status = IF PatientUpdate(req'.body) THEN 404 ELSE 422]_vars

\* a non-empty valid patch for an absent id was refused with 404, another
\* record being stored
C4_Witness ==
  /\ req.op = "update" /\ resp.status = 404
  /\ req.id \notin Keys(file)
  /\ req.body.set # {}
  /\ file # <<>>

\* C5: an update of an existing id whose merged record violates a field
\* invariant of Patient fails with 422 and leaves the collection unchanged.
C5_MergedInvalidIs422 ==
  [][(/\ req'.op = "update"
      /\ req'.id \in Keys(file)
      /\ ~Patient(Overlay(Get(file, req'.id), req'.id, req'.body)))
       => (resp'.status = 422 /\ file' = file)]_vars

\* C6: after a successful create(r), with no later update or delete of r.id,
\* view_one(r.id) returns r's name, city, age, gender, height and weight with
\* bmi = round(weight / height^2, 2) and its verdict (the id is the key, not a
\* field of the returned object).
C6_CreateViewRoundTrip ==
  \A p \in created :
    (req.op = "view_one" /\ req.id = p.id)
      => /\ resp.status = 200
         /\ DOMAIN resp.body = DataFields \cup {"bmi", "verdict"}
         /\ \A f \in DataFields : resp.body[f] = p[f]
         /\ IsRoundedBmi(resp.body.bmi, p.height, p.weight)
         /\ IsVerdictOf(resp.body.verdict, resp.body.bmi)

\* the second of two created records is viewed
C6_Witness ==
  /\ req.op = "view_one" /\ resp.status = 200
  /\ Cardinality(created) = 2
  /\ \E p \in created : p.id = req.id /\ file[2].id = p.id /\ resp.body.bmi = 1850

IsPermutation(p, n) ==
  /\ DOMAIN p = 1..n
  /\ \A i, j \in 1..n : p[i] = p[j] => i = j

\* out is vals ordered by field f (an absent field is 0), equal keys in the
\* order they have in vals
IsStableSort(out, vals, f, desc) ==
  /\ Len(out) = Len(vals)
  /\ \E p \in [1..Len(vals) -> 1..Len(vals)] :
       /\ IsPermutation(p, Len(vals))
       /\ \A i \in 1..Len(vals) : out[i] = vals[p[i]]
       /\ \A i, j \in 1..Len(vals) :
            i < j =>
              LET a == GetField(out[i], f)
                  b == GetField(out[j], f)
              IN  /\ IF desc THEN a >= b ELSE a <= b
                  /\ a = b => p[i] < p[j]

\* C7: for sort_by in {height, weight, bmi} and order in {asc, desc}, sort
\* returns a permutation of the stored records ordered by the field
\* (non-decreasing for asc, non-increasing for desc), a record without the
\* field counting as 0, records with equal keys in collection order.
C7_SortStable ==
  (req.op = "sort" /\ req.sort_by \in {"height", "weight", "bmi"}
     /\ req.order \in {"asc", "desc"})
    => /\ resp.status = 200
       /\ IsStableSort(resp.body, Values(file), req.sort_by, req.order = "desc")

\* a descending sort by bmi of three records: two different records with the
\* same bmi and one record without a bmi
C7_Witness ==
  /\ req.op = "sort" /\ resp.status = 200
  /\ req.sort_by = "bmi" /\ req.order = "desc"
  /\ Len(resp.body) = 3
  /\ \E i, j, k \in 1..3 :
       /\ i < j
       /\ "bmi" \in DOMAIN resp.body[i] /\ "bmi" \in DOMAIN resp.body[j]
       /\ resp.body[i].bmi = resp.body[j].bmi
       /\ resp.body[i].name # resp.body[j].name
       /\ "bmi" \notin DOMAIN resp.body[k]

DeleteFrame ==
  (req'.op = "delete" /\ resp'.status = 200)
    => file' = SelectSeq(file, LAMBDA e : e.id # req'.id)

\* C8 (as stated): after a successful delete(id) and until a successful create
\* of id, every view_one, update and delete of id fails with 404; and the
\* delete removed or changed no other record.
C8_Original ==
  [][/\ (req'.id \in deleted /\ req'.op \in {"view_one", "update", "delete"})
          => resp'.status = 404
     /\ DeleteFrame]_vars

\* C8 (amended): after a successful delete(id) and until a successful create
\* of id, every view_one and delete of id fails with 404, and every update of
\* id fails with 404 when its patch validates as a PatientUpdate and with 422
\* when it does not; and the delete removed or changed no other record.
C8_DeletedStaysGone ==
  [][/\ (req'.id \in deleted /\ req'.op \in {"view_one", "delete"})
          => resp'.status = 404
     /\ (req'.id \in deleted /\ req'.op = "update")
          => resp'.status = IF PatientUpdate(req'.body) THEN 404 ELSE 422
     /\ DeleteFrame]_vars

\* an update of a deleted id was refused with 404 while the other record,
\* created before it, is still stored
C8_Witness ==
  /\ req.op = "update" /\ resp.status = 404
  /\ req.id \in deleted
  /\ Len(file) = 1
  /\ \E p \in created : file[1] = [id |-> p.id, val |-> model_dump(p)]

EntriesOf(data, id) == {data[i] : i \in {j \in DOMAIN data : data[j].id = id}}

\* the persisted collection holds for t's id what t's handler saved for it
Reflects(t) == EntriesOf(file, treq[t].id) = EntriesOf(local[t], treq[t].id)

Saved(t) == \E i \in DOMAIN saves : saves[i] = t

\* C9: with two mutating requests interleaved, nothing guards the
\* load-modify-save cycle: once both have saved, the persisted collection is
\* exactly the in-memory collection of the one that saved last; for different
\* ids, when the later saver had loaded before the earlier save, the earlier
\* saver's id is as the later saver loaded it (the earlier mutation is
\* overwritten), and otherwise the earlier mutation is in the collection.
\* So the lost update is reachable (C9_Witness).
C9_LastSaveWins ==
  (Len(saves) = 2)
    => LET first == saves[1]
           last == saves[2]
           id == treq[first].id
       IN  /\ file = local[last]
           /\ id # treq[last].id
                => IF stale[last]
                   THEN EntriesOf(file, id) = EntriesOf(snap[last], id)
                   ELSE Reflects(first)

\* both requests answered success, on different ids, and the persisted
\* collection does not hold the mutation of the one that saved first
C9_Witness ==
  /\ Len(saves) = 2
  /\ \A t \in Threads : pc[t] = "done" /\ tresp[t].status \in {200, 201}
  /\ treq[saves[1]].id # treq[saves[2]].id
  /\ ~Reflects(saves[1])
  /\ Reflects(saves[2])

\* C10: one request at a time, a successful create adds exactly the supplied
\* key, absent before, and changes no existing record; a successful update
\* changes only the value under its id and never the set of keys; a successful
\* delete removes exactly its key; view, view_one, sort and every failing
\* request leave the persisted collection unchanged.
C10_LifecycleFrame ==
  [][LET id == req'.id
         ok == resp'.status \in {200, 201}
         op == req'.op
         same(ks) == \A k \in ks : Get(file', k) = Get(file, k)
     IN  /\ Len(file') = Cardinality(Keys(file'))
         /\ (op = "create" /\ ok)
              => /\ id \notin Keys(file)
                 /\ Keys(file') = Keys(file) \cup {id}
                 /\ same(Keys(file))
         /\ (op = "update" /\ ok)
              => /\ Keys(file') = Keys(file)
                 /\ same(Keys(file) \ {id})
         /\ (op = "delete" /\ ok)
              => /\ id \in Keys(file)
                 /\ Keys(file') = Keys(file) \ {id}
                 /\ same(Keys(file'))
         /\ (op \in {"view", "view_one", "sort"} \/ ~ok) => file' = file]_vars

\* a successful update of the second of two stored records, the first being
\* still as it was created
C10_Witness ==
  /\ req.op = "update" /\ resp.status = 200
  /\ Len(file) = 2 /\ file[2].id = req.id
  /\ \E p \in created : file[1] = [id |-> p.id, val |-> model_dump(p)]

====
